---------------------------- MODULE Spec2Model ----------------------------
(***************************************************************************)
(* A model of pyarmor/cli/project.py (src/src/cli/project.py).             *)
(*                                                                         *)
(* Python strings are TLA+ strings; TLC evaluates Len, \o, Head, Tail and  *)
(* SubSeq on them, so the string functions of the source (split, find,     *)
(* fnmatch, basename, splitext, normpath, relpath, ...) are computed       *)
(* character by character as the library computes them.                    *)
(*                                                                         *)
(* Objects (Script, Module, Package) live in a heap, a sequence of         *)
(* records; an object's identity is its index in the heap.  The Project    *)
(* is the parent with index 0.                                             *)
(***************************************************************************)
EXTENDS Integers, Sequences, FiniteSets, TLC

(***************************************************************************)
(* Bounds of the model.                                                    *)
(***************************************************************************)
\* at most this many Script/Module/Package objects are ever constructed
MaxUnits == 9
\* at most this many Project.load calls on one Project
MaxLoads == 1
\* at most this many Project.load calls on a Project that is loaded again
MaxReloads == 2
\* at most this many changes of the filesystem by the environment
MaxFsOps == 1
\* at most this many entries in the diagnostic logs taken together
MaxLog == 3

(***************************************************************************)
(* Python values.                                                          *)
(***************************************************************************)
\* None and a non-None value v of an attribute that is None until computed
None == [some |-> FALSE, v |-> <<>>]
Some(v) == [some |-> TRUE, v |-> v]

\* the elements of a sequence, as a set
Range(s) == {s[i] : i \in 1..Len(s)}

\* s[i], the character at 1-based position i
Ch(s, i) == SubSeq(s, i, i)

\* s[i:], the suffix from 1-based position i
From(s, i) == SubSeq(s, i, Len(s))

\* s.startswith(t)
startswith(s, t) == Len(t) <= Len(s) /\ SubSeq(s, 1, Len(t)) = t

\* s.endswith(t)
endswith(s, t) ==
    Len(t) <= Len(s) /\ SubSeq(s, Len(s) - Len(t) + 1, Len(s)) = t

\* s.find(t): the 0-based index of the first occurrence of t in s, else -1
find(s, t) ==
    LET hits == {i \in 1..(Len(s) - Len(t) + 1) : SubSeq(s, i, i + Len(t) - 1) = t}
    IN  IF hits = {} THEN -1
        ELSE (CHOOSE i \in hits : \A j \in hits : i <= j) - 1

\* s.rfind(t): the 0-based index of the last occurrence of t in s, else -1
rfind(s, t) ==
    LET hits == {i \in 1..(Len(s) - Len(t) + 1) : SubSeq(s, i, i + Len(t) - 1) = t}
    IN  IF hits = {} THEN -1
        ELSE (CHOOSE i \in hits : \A j \in hits : i >= j) - 1

\* s.split(sep) for a non-empty separator: empty fields are kept
RECURSIVE split(_, _)
split(s, sep) ==
    LET i == find(s, sep)
    IN  IF i = -1 THEN <<s>>
        ELSE <<SubSeq(s, 1, i)>> \o split(From(s, i + 1 + Len(sep)), sep)

\* s.split(): split on runs of whitespace, no empty fields.  Whitespace is
\* the characters str.isspace() holds for: the ASCII ones U+0009..U+000D,
\* U+001C..U+001F and U+0020, then U+0085, U+00A0 and U+1680.  The other
\* Unicode spaces (U+2000..U+200A, U+2028, U+2029, U+202F, U+205F, U+3000)
\* cannot be written in a string of this module: strings that hold them are
\* outside the model.
Whitespace ==
    {" ", "\t", "\n", "\r", "\f",
     "", "", "", "", "", "", " ", " "}

\* the tokens of s from left to right: cur is the token being read, acc the
\* tokens read
RECURSIVE wtokens(_, _, _)
wtokens(s, cur, acc) ==
    IF s = "" THEN IF cur = "" THEN acc ELSE Append(acc, cur)
    ELSE IF Ch(s, 1) \in Whitespace
         THEN wtokens(From(s, 2), "", IF cur = "" THEN acc ELSE Append(acc, cur))
    ELSE wtokens(From(s, 2), cur \o Ch(s, 1), acc)

wsplit(s) == wtokens(s, "", <<>>)

\* s.replace(old, new)
RECURSIVE replace(_, _, _)
replace(s, old, new) ==
    LET i == find(s, old)
    IN  IF i = -1 THEN s
        ELSE SubSeq(s, 1, i) \o new \o replace(From(s, i + 1 + Len(old)), old, new)

\* s.strip(chars) for chars empty or one character; s.strip('') is s
RECURSIVE strip(_, _)
strip(s, c) ==
    IF c = "" \/ s = "" THEN s
    ELSE IF Ch(s, 1) = c THEN strip(From(s, 2), c)
    ELSE IF Ch(s, Len(s)) = c THEN strip(SubSeq(s, 1, Len(s) - 1), c)
    ELSE s

\* sep.join(parts)
RECURSIVE join(_, _)
join(sep, parts) ==
    IF parts = <<>> THEN ""
    ELSE IF Len(parts) = 1 THEN parts[1]
    ELSE parts[1] \o sep \o join(sep, Tail(parts))

\* list concatenation of a list of lists
RECURSIVE Flatten(_)
Flatten(ss) == IF ss = <<>> THEN <<>> ELSE Head(ss) \o Flatten(Tail(ss))


\* list.remove(x): delete the first element equal to x
RemoveFirst(s, x) ==
    LET hits == {i \in 1..Len(s) : s[i] = x}
        k == CHOOSE i \in hits : \A j \in hits : i <= j
    IN  IF hits = {} THEN s
        ELSE SubSeq(s, 1, k - 1) \o SubSeq(s, k + 1, Len(s))

(***************************************************************************)
(* fnmatch.fnmatch on POSIX (normcase is the identity), for patterns made  *)
(* of literal characters, '*' and '?'.                                     *)
(***************************************************************************)
RECURSIVE fnmatch(_, _)
fnmatch(name, pat) ==
    IF pat = "" THEN name = ""
    ELSE IF Ch(pat, 1) = "*"
         THEN \E k \in 0..Len(name) : fnmatch(From(name, k + 1), From(pat, 2))
    ELSE IF name = "" THEN FALSE
    ELSE IF Ch(pat, 1) = "?" THEN fnmatch(From(name, 2), From(pat, 2))
    ELSE Ch(pat, 1) = Ch(name, 1) /\ fnmatch(From(name, 2), From(pat, 2))

\* any([fnmatch(name, x) for x in pats])
anymatch(name, pats) == \E i \in 1..Len(pats) : fnmatch(name, pats[i])

(***************************************************************************)
(* os.path (posixpath).                                                    *)
(***************************************************************************)
isabs(p) == startswith(p, "/")

joinpath(a, b) ==
    IF isabs(b) THEN b
    ELSE IF a = "" \/ endswith(a, "/") THEN a \o b
    ELSE a \o "/" \o b

basename(p) == From(p, rfind(p, "/") + 2)

\* os.path.dirname / the head of os.path.split
RECURSIVE rstripsep(_)
rstripsep(s) ==
    IF s # "" /\ Ch(s, Len(s)) = "/" THEN rstripsep(SubSeq(s, 1, Len(s) - 1))
    ELSE s

dirname(p) ==
    LET head == SubSeq(p, 1, rfind(p, "/") + 1)
    IN  IF head # "" /\ rstripsep(head) # "" THEN rstripsep(head) ELSE head

\* splitext(p)[0]: the last dot of the base name starts the extension unless
\* only dots precede it
splitext0(p) ==
    LET sepIndex == rfind(p, "/")
        dotIndex == rfind(p, ".")
    IN  IF dotIndex > sepIndex
           /\ \E k \in (sepIndex + 1)..(dotIndex - 1) : Ch(p, k + 1) # "."
        THEN SubSeq(p, 1, dotIndex)
        ELSE p

\* the components normpath keeps: empty and '.' dropped, 'x/..' cancelled
RECURSIVE normcomps(_, _, _)
normcomps(comps, acc, abs) ==
    IF comps = <<>> THEN acc
    ELSE LET c == Head(comps)
             rest == Tail(comps)
         IN  IF c = "" \/ c = "." THEN normcomps(rest, acc, abs)
             ELSE IF c # ".." THEN normcomps(rest, Append(acc, c), abs)
             ELSE IF acc # <<>> /\ acc[Len(acc)] # ".."
                  THEN normcomps(rest, SubSeq(acc, 1, Len(acc) - 1), abs)
             ELSE IF acc = <<>> /\ abs THEN normcomps(rest, acc, abs)
             ELSE normcomps(rest, Append(acc, c), abs)

normpath(p) ==
    LET slashes == IF ~isabs(p) THEN ""
                   ELSE IF startswith(p, "//") /\ ~startswith(p, "///") THEN "//"
                   ELSE "/"
        body == join("/", normcomps(split(p, "/"), <<>>, isabs(p)))
    IN  IF p = "" THEN "."
        ELSE IF slashes \o body = "" THEN "."
        ELSE slashes \o body

\* os.path.abspath for the absolute paths of the model (the working
\* directory plays no part)
abspath(p) == normpath(p)

\* os.path.relpath(path, start) for absolute path and start
relpath(path, start) ==
    LET sl == SelectSeq(split(abspath(start), "/"), LAMBDA x : x # "")
        pl == SelectSeq(split(abspath(path), "/"), LAMBDA x : x # "")
        same == {k \in 0..Len(sl) : k <= Len(pl) /\ \A j \in 1..k : sl[j] = pl[j]}
        i == CHOOSE k \in same : \A j \in same : k >= j
        ups == [j \in 1..(Len(sl) - i) |-> ".."]
        rel == ups \o SubSeq(pl, i + 1, Len(pl))
    IN  IF rel = <<>> THEN "." ELSE join("/", rel)

(***************************************************************************)
(* The filesystem.  FsOrder lists every path the model knows, in the order *)
(* os.scandir enumerates a directory (deliberately not sorted); fs, a      *)
(* variable, is the set of those paths that exist now.  A "link" is a      *)
(* symbolic link to a regular file.                                        *)
(***************************************************************************)
FsOrder == <<
    [d |-> "/",      n |-> "s",           k |-> "dir"],
    [d |-> "/s",     n |-> "u.py",        k |-> "file"],
    [d |-> "/s",     n |-> "m.py",        k |-> "file"],
    [d |-> "/s",     n |-> "p",           k |-> "dir"],
    [d |-> "/s",     n |-> "l.py",        k |-> "link"],
    [d |-> "/s",     n |-> ".h.py",       k |-> "file"],
    [d |-> "/s/p",   n |-> "q",           k |-> "dir"],
    [d |-> "/s/p",   n |-> "a.pyw",       k |-> "file"],
    [d |-> "/s/p",   n |-> "__init__.py", k |-> "file"],
    [d |-> "/s/p",   n |-> "n.txt",       k |-> "file"],
    [d |-> "/s/p",   n |-> "a.py",        k |-> "file"],
    [d |-> "/s/p",   n |-> "__pycache__", k |-> "dir"],
    [d |-> "/s/p/q", n |-> "b.py",        k |-> "file"] >>

\* the path of a directory entry
EntryPath(e) == joinpath(e.d, e.n)

FsPaths == {EntryPath(FsOrder[i]) : i \in 1..Len(FsOrder)}

FsKind(p) ==
    IF p \notin FsPaths THEN "none"
    ELSE FsOrder[CHOOSE i \in 1..Len(FsOrder) : EntryPath(FsOrder[i]) = p].k

\* the files the environment creates and deletes while the program runs
Volatile == {"/s/p/q/b.py"}

\* the filesystems the environment can produce
FsStates == {FsPaths \ gone : gone \in SUBSET Volatile}

\* the filesystems a Project is constructed on
FsLayouts == {FsPaths \ {"/s/p/q/b.py"}, FsPaths}

\* the entry at path cur is a directory, a symbolic link being followed: the
\* root and the working directory are directories, a link of the model
\* points to a regular file
IsDirAt(f, cur) ==
    cur \in {"/", "."} \/ (cur \in f /\ FsKind(cur) = "dir")

\* the kernel's resolution of the components comps from the entry cur, one
\* component at a time: every component, also '', '.' and '..', is looked
\* up in a directory; the result is the path of the entry reached, "" when
\* the lookup fails (ENOENT, ENOTDIR).  The working directory "." is outside
\* the files of the model and holds none of them.
RECURSIVE walk(_, _, _)
walk(f, cur, comps) ==
    IF comps = <<>> THEN cur
    ELSE IF ~IsDirAt(f, cur) THEN ""
    ELSE IF Head(comps) \in {"", "."} THEN walk(f, cur, Tail(comps))
    ELSE IF Head(comps) = ".."
         THEN walk(f, IF cur = "." THEN "." ELSE dirname(cur), Tail(comps))
    ELSE IF cur # "." /\ joinpath(cur, Head(comps)) \in f
         THEN walk(f, joinpath(cur, Head(comps)), Tail(comps))
    ELSE ""

\* the entry a path names, the last component not being followed
resolve(f, path) ==
    IF path = "" THEN ""
    ELSE walk(f, IF isabs(path) THEN "/" ELSE ".", split(path, "/"))

\* os.path.lexists: the path names an entry (a symbolic link is not followed)
lexists(f, path) == resolve(f, path) # ""

\* os.path.exists: no link of the model dangles
exists(f, path) == lexists(f, path)

\* os.path.isdir / DirEntry.is_dir(): symbolic links are followed
isdir(f, path) == IsDirAt(f, resolve(f, path))

\* the entries of the directory at the resolved path np, in order
dir_entries(f, np) ==
    SelectSeq(FsOrder, LAMBDA e : e.d = np /\ EntryPath(e) \in f)

\* DirEntry.name of each enumerated entry
entry_names(ets) == [i \in 1..Len(ets) |-> ets[i].n]

\* the names os.scandir(path) / os.listdir(path) enumerates, in order
listdir(f, path) == entry_names(dir_entries(f, resolve(f, path)))

\* DirEntry.is_dir(follow_symlinks=False): the type of the enumerated entry
is_dir_nofollow(et) == et.k = "dir"

\* DirEntry.is_file(follow_symlinks=False): the type of the enumerated entry
is_file_nofollow(et) == et.k = "file"

(***************************************************************************)
(* Project File View.                                                      *)
(***************************************************************************)
GLOBAL_EXCLS == <<".*", "__pycache__">>
GLOBAL_INCLS == <<"*.py", "*.pyw">>

\* scan_path as it would be if is_file followed symbolic links
scan_path_follow(f, path, includes, excludes) ==
    LET xlist == IF includes # <<>> THEN includes ELSE GLOBAL_INCLS
        ets == SelectSeq(dir_entries(f, resolve(f, path)),
                   LAMBDA et : ~anymatch(et.n, excludes))
    IN  IF ~isdir(f, path) THEN [ok |-> FALSE, files |-> <<>>, dirs |-> <<>>]
        ELSE [ok    |-> TRUE,
              files |-> entry_names(SelectSeq(ets,
                           LAMBDA et : ~is_dir_nofollow(et)
                                       /\ anymatch(et.n, xlist))),
              dirs  |-> entry_names(SelectSeq(ets,
                           LAMBDA et : is_dir_nofollow(et)))]

\* scan_path(path, includes, excludes): the entries os.scandir enumerates,
\* each asked for its own type; ok is FALSE when os.scandir raises OSError
\* because path is not an existing directory
scan_path(f, path, includes, excludes) ==
    LET xlist == IF includes # <<>> THEN includes ELSE GLOBAL_INCLS
        ets == SelectSeq(dir_entries(f, resolve(f, path)),
                   LAMBDA et : ~anymatch(et.n, excludes))
    IN  IF ~isdir(f, path) THEN [ok |-> FALSE, files |-> <<>>, dirs |-> <<>>]
        ELSE [ok    |-> TRUE,
              files |-> entry_names(SelectSeq(ets,
                           LAMBDA et : ~is_dir_nofollow(et)
                                       /\ is_file_nofollow(et)
                                       /\ anymatch(et.n, xlist))),
              dirs  |-> entry_names(SelectSeq(ets,
                           LAMBDA et : is_dir_nofollow(et)))]

\* scan_path(path, excludes=GLOBAL_EXCLS), tabulated once for the
\* filesystems and the directories of the model
ScanTable ==
    [f \in FsStates |->
        [path \in FsPaths |-> scan_path(f, path, <<>>, GLOBAL_EXCLS)]]

pkg_scan(f, path) ==
    IF f \in FsStates /\ path \in FsPaths THEN ScanTable[f][path]
    ELSE scan_path(f, path, <<>>, GLOBAL_EXCLS)

\* glob.has_magic
has_magic(s) == find(s, "*") # -1 \/ find(s, "?") # -1 \/ find(s, "[") # -1

\* glob._ishidden
ishidden(s) == startswith(s, ".")

\* glob._glob1: the entries of a directory that match a pattern
glob1(f, dir, pattern, dironly) ==
    LET names == IF isdir(f, dir) THEN listdir(f, dir) ELSE <<>>
    IN  SelectSeq(names,
            LAMBDA n : /\ dironly => isdir(f, joinpath(dir, n))
                       /\ ishidden(pattern) \/ ~ishidden(n)
                       /\ fnmatch(n, pattern))

\* glob._glob0: a literal base name
glob0(f, dir, base) ==
    IF base # ""
    THEN IF lexists(f, joinpath(dir, base)) THEN <<base>> ELSE <<>>
    ELSE IF isdir(f, dir) THEN <<base>> ELSE <<>>

\* glob._iglob without recursive: '**' is an ordinary '*'
RECURSIVE iglob(_, _, _)
iglob(f, pathname, dironly) ==
    LET d == dirname(pathname)
        b == basename(pathname)
        dirs == IF d # pathname /\ has_magic(d) THEN iglob(f, d, TRUE) ELSE <<d>>
        indir(dir) ==
            LET names == IF has_magic(b) THEN glob1(f, dir, b, dironly)
                         ELSE glob0(f, dir, b)
            IN  [i \in 1..Len(names) |-> joinpath(dir, names[i])]
    IN  IF ~has_magic(pathname)
        THEN IF b # ""
             THEN IF lexists(f, pathname) THEN <<pathname>> ELSE <<>>
             ELSE IF isdir(f, d) THEN <<pathname>> ELSE <<>>
        ELSE IF d = "" THEN glob1(f, "", b, dironly)
        ELSE Flatten([i \in 1..Len(dirs) |-> indir(dirs[i])])

\* glob.glob(pathname, recursive=0)
glob(f, pathname) == IF pathname = "" THEN <<>> ELSE iglob(f, pathname, FALSE)

\* search_item(root, pattern, excludes)
search_item(f, root, pattern, excludes) ==
    LET sep == IF endswith(pattern, "/") THEN "/" ELSE ""
        pt == IF isabs(pattern) THEN pattern ELSE joinpath(root, pattern)
        keep(item) == ~(excludes # <<>>
                        /\ anymatch(basename(strip(item, sep)), excludes))
        normed(result) == [i \in 1..Len(result) |-> normpath(result[i])]
    IN  IF pattern = "" THEN <<>>
        ELSE normed(SelectSeq(glob(f, pt), keep))

(***************************************************************************)
(* State.                                                                  *)
(***************************************************************************)
VARIABLES
    fs,             \* the paths that exist on the filesystem
    workdir,        \* ctx.local_path/project exists
    heap,           \* the Script, Module and Package objects constructed so far
    src,            \* Project.src
    _scripts,       \* Project._scripts, a list of objects
    _modules,       \* Project._modules
    _packages,      \* Project._packages
    _namespaces,    \* Project._namespaces
    _rmodules,      \* Project._rmodules: None or a dict qualname -> object
    nindexed,       \* the number of objects there were when _rmodules was built
    unknown_vars,   \* Project.unknown_vars
    unknown_attrs,  \* Project.unknown_attrs
    unknown_calls,  \* Project.unknown_calls
    unknown_args,   \* Project.unknown_args
    op,             \* the last call: its name, argument, result or exception
    nloads,         \* the number of Project.load calls so far
    nfsops,         \* the number of filesystem changes so far
    file,           \* the text of the source file of the Module mod
    mod,            \* a Module constructed on that file: its _tree and _co
    cfg,            \* ctx.cfg: the sections of the config store
    rft,            \* Project._rft_options, _rft_filters and _rft_rulers
    ncalls,         \* the number of calls on mod and on the rft properties
    it              \* the generator an iter_module() call returned

tree == <<heap, src, _scripts, _modules, _packages, _namespaces, _rmodules,
          nindexed>>
logs == <<unknown_vars, unknown_attrs, unknown_calls, unknown_args>>
code == <<file, mod>>
conf == <<cfg, rft>>
vars == <<fs, workdir, tree, logs, op, nloads, nfsops, code, conf, ncalls, it>>

(***************************************************************************)
(* Concepts: Module, Script, Package.                                      *)
(***************************************************************************)
\* Module.__init__ / Package.__init__: name '' stands for name=None
NewUnit(cls, path, nm, parent) ==
    [cls       |-> cls,
     parent    |-> parent,
     _path     |-> path,
     _name     |-> IF nm # "" THEN nm ELSE splitext0(basename(path)),
     _modules  |-> None,
     _packages |-> None]

\* Module.name as it would be without the '__init__' case
name_raw(h, u) == h[u]._name

\* Module.name
name(h, u) == IF h[u]._name = "__init__" THEN "" ELSE h[u]._name

\* Module.qualname as it would be if the separator were always added
RECURSIVE qualname_dotted(_, _)
qualname_dotted(h, u) ==
    IF h[u].parent = 0 THEN h[u]._name
    ELSE qualname_dotted(h, h[u].parent) \o "." \o name(h, u)

\* Module.qualname
RECURSIVE qualname(_, _)
qualname(h, u) ==
    IF h[u].parent = 0 THEN h[u]._name
    ELSE LET prefix == qualname(h, h[u].parent)
                       \o (IF name(h, u) # "" THEN "." ELSE "")
         IN  prefix \o name(h, u)

\* Module.abspath; s is the src of the Project, whose abspath is abspath(src)
RECURSIVE unit_abspath(_, _, _)
unit_abspath(h, s, u) ==
    IF isabs(h[u]._path) THEN h[u]._path
    ELSE joinpath(IF h[u].parent = 0 THEN abspath(s)
                  ELSE unit_abspath(h, s, h[u].parent),
                  h[u]._path)

\* the body of Package.load once scan_path has returned r: a new Module for
\* each file and a new Package for each directory; ok is FALSE when the
\* scan raised, and the package is then left as it was
pkg_load_units(h, p, r) ==
    LET mods == [i \in 1..Len(r.files) |-> NewUnit("Module", r.files[i], "", p)]
        pkgs == [i \in 1..Len(r.dirs) |-> NewUnit("Package", r.dirs[i], "", p)]
        n == Len(h)
        m == Len(r.files)
    IN  IF ~r.ok THEN [ok |-> FALSE, heap |-> h]
        ELSE [ok   |-> TRUE,
              heap |-> [(h \o mods \o pkgs) EXCEPT
                           ![p]._modules = Some([i \in 1..m |-> n + i]),
                           ![p]._packages =
                               Some([i \in 1..Len(r.dirs) |-> n + m + i])]]

\* Package.load: one scan of the package's directory, whatever the lists are
pkg_load(f, h, s, p) ==
    pkg_load_units(h, p, pkg_scan(f, unit_abspath(h, s, p)))

\* Package.iter_module run to its end: st carries the heap, the modules
\* yielded so far, the number of scans made, and ok = FALSE once a load has
\* raised
RECURSIVE pkg_iter_module(_, _, _, _)
RECURSIVE iter_children(_, _, _, _)
iter_children(f, s, st, children) ==
    IF children = <<>> \/ ~st.ok THEN st
    ELSE iter_children(f, s, pkg_iter_module(f, s, st, Head(children)),
                       Tail(children))

\* the iteration state after self.load() has returned l
after_load(st, l) ==
    [st EXCEPT !.ok = l.ok, !.heap = l.heap, !.scans = @ + 1]

\* the two loops of Package.iter_module, from the state st after the guard
pkg_iter_loaded(f, s, st, p) ==
    IF ~st.ok THEN st
    ELSE iter_children(f, s,
                       [st EXCEPT !.out = @ \o st.heap[p]._modules.v],
                       st.heap[p]._packages.v)

pkg_iter_module(f, s, st, p) ==
    IF ~st.ok THEN st
    ELSE pkg_iter_loaded(f, s,
             IF ~st.heap[p]._modules.some \/ ~st.heap[p]._packages.some
             THEN after_load(st, pkg_load(f, st.heap, s, p))
             ELSE st,
             p)

\* Project.iter_module run to its end
iter_module(f, h, s, mods, pkgs, nss) ==
    iter_children(f, s, [ok |-> TRUE, heap |-> h, out |-> mods, scans |-> 0],
                  pkgs \o nss)

(***************************************************************************)
(* iter_module is a generator function, and so are the getters of the     *)
(* properties Package.modules and Package.packages: the call, or the read  *)
(* of the property, returns a generator and runs nothing of the body; each *)
(* next() runs the body up to the next yield, to its end (StopIteration)   *)
(* or to the OSError of a load.  it is the generator a caller holds, one   *)
(* at a time: kind is the function it was made by ("iter_module",          *)
(* "_modules" for Package.modules, "_packages" for Package.packages), root *)
(* the Package it was made on (0 for the Project), stack the frames of the *)
(* generators nested by                                                    *)
(* "for x in pkg.iter_module()", the innermost last, out the objects       *)
(* yielded so far, scans the scans made so far, alone tells that no other  *)
(* call on the tree was made since the call, and heap0 is the objects      *)
(* there were at the call.  A frame is at "start" (body not entered), in   *)
(* the loop over the modules ("mods"), in the loop over the sub-packages   *)
(* ("pkgs") or in the one loop of an accessor ("items"); list is the list  *)
(* object the loop iterates and i the position in it.                      *)
(***************************************************************************)
NoIter ==
    [on |-> FALSE, kind |-> "", root |-> 0, stack |-> <<>>, out |-> <<>>,
     scans |-> 0, alone |-> TRUE, heap0 |-> <<>>]

Frame(p, pc, list, i) == [p |-> p, pc |-> pc, list |-> list, i |-> i]

\* the stack with its innermost frame replaced / returned from
SetTop(stack, fr) == [stack EXCEPT ![Len(stack)] = fr]

Pop(stack) == SubSeq(stack, 1, Len(stack) - 1)

\* the generator after another call on the tree: heap0 is kept for the
\* iterations that run alone
Touched(g) ==
    IF g.on THEN [g EXCEPT !.alone = FALSE, !.heap0 = <<>>] ELSE g

\* the second loop of Package.iter_module as it would be if it walked no
\* sub-package
iter_packages_none(h, p) == <<>>

\* the list "for pkg in self._packages" iterates: the list self._packages is
\* bound to when the loop over the modules has ended
iter_packages(h, p) == h[p]._packages.v

\* one next() on the generator whose frames are g.stack, with the heap g.heap:
\* the body runs until it yields g.val (res = ""), ends (res =
\* "StopIteration") or a load raises (res = "OSError").  mods is the list
\* Project._modules, which Project.load extends in place, so that the loop
\* of Project.iter_module sees what was appended since; subs is
\* self._packages + self._namespaces, a new list made when that loop ends.
\* A Package's lists are rebound by Package.load, never changed in place:
\* the loop keeps the list it started on.
RECURSIVE gen_next(_, _, _, _, _)
\* the frame of Package p after the guard: l is what self.load() returned,
\* n the number of scans it made
gen_loaded(f, s, mods, subs, g, p, l, n) ==
    IF ~l.ok
    THEN [g EXCEPT !.heap = l.heap, !.stack = <<>>, !.scans = @ + n,
                   !.res = "OSError"]
    ELSE gen_next(f, s, mods, subs,
                  [g EXCEPT !.heap = l.heap, !.scans = @ + n,
                            !.stack = SetTop(@, Frame(p, "mods",
                                                l.heap[p]._modules.v, 1))])

\* the guard of Package.iter_module, run at the first next() on the frame
gen_start(f, s, mods, subs, g, p) ==
    IF ~g.heap[p]._modules.some \/ ~g.heap[p]._packages.some
    THEN gen_loaded(f, s, mods, subs, g, p, pkg_load(f, g.heap, s, p), 1)
    ELSE gen_loaded(f, s, mods, subs, g, p, [ok |-> TRUE, heap |-> g.heap], 0)

\* the loop over the modules, in the frame fr whose list is now list
gen_mods(f, s, mods, subs, g, fr, list) ==
    IF fr.i <= Len(list)
    THEN [g EXCEPT !.stack = SetTop(@, [fr EXCEPT !.i = @ + 1]),
                   !.val = list[fr.i]]
    ELSE gen_next(f, s, mods, subs,
                  [g EXCEPT !.stack =
                      SetTop(@, Frame(fr.p, "pkgs",
                                      IF fr.p = 0 THEN subs
                                      ELSE iter_packages(g.heap, fr.p), 1))])

\* the loop over the sub-packages: the next one gets a generator of its own,
\* entered at once; after the last one the generator of this frame returns
gen_pkgs(f, s, mods, subs, g, fr) ==
    IF fr.i <= Len(fr.list)
    THEN gen_next(f, s, mods, subs,
                  [g EXCEPT !.stack =
                      Append(SetTop(@, [fr EXCEPT !.i = @ + 1]),
                             Frame(fr.list[fr.i], "start", <<>>, 0))])
    ELSE gen_next(f, s, mods, subs, [g EXCEPT !.stack = Pop(@)])

\* the guard of the accessors Package.modules and Package.packages: the list
\* they serve is still None
unloaded_always(h, p, attr) == TRUE

unloaded(h, p, attr) == ~h[p][attr].some

\* the frame of the accessor of attr on Package p after the guard: l is what
\* self.load() returned, n the number of scans it made; the loop iterates
\* the list the attribute is bound to now
accessor_loaded(f, s, mods, subs, g, p, attr, l, n) ==
    IF ~l.ok
    THEN [g EXCEPT !.heap = l.heap, !.stack = <<>>, !.scans = @ + n,
                   !.res = "OSError"]
    ELSE gen_next(f, s, mods, subs,
                  [g EXCEPT !.heap = l.heap, !.scans = @ + n,
                            !.stack = SetTop(@, Frame(p, "items",
                                                l.heap[p][attr].v, 1))])

\* the guard of an accessor, run at the first next(): only the list the
\* accessor serves is tested
accessor_start(f, s, mods, subs, g, p, attr) ==
    IF unloaded(g.heap, p, attr)
    THEN accessor_loaded(f, s, mods, subs, g, p, attr,
                         pkg_load(f, g.heap, s, p), 1)
    ELSE accessor_loaded(f, s, mods, subs, g, p, attr,
                         [ok |-> TRUE, heap |-> g.heap], 0)

\* the loop of an accessor: after the last object the generator returns
accessor_items(f, s, mods, subs, g, fr) ==
    IF fr.i <= Len(fr.list)
    THEN [g EXCEPT !.stack = SetTop(@, [fr EXCEPT !.i = @ + 1]),
                   !.val = fr.list[fr.i]]
    ELSE gen_next(f, s, mods, subs, [g EXCEPT !.stack = Pop(@)])

gen_frame(f, s, mods, subs, g, fr) ==
    IF fr.pc = "start"
    THEN IF g.kind = "iter_module" THEN gen_start(f, s, mods, subs, g, fr.p)
         ELSE accessor_start(f, s, mods, subs, g, fr.p, g.kind)
    ELSE IF fr.pc = "items" THEN accessor_items(f, s, mods, subs, g, fr)
    ELSE IF fr.pc = "mods"
         THEN gen_mods(f, s, mods, subs, g, fr,
                       IF fr.p = 0 THEN mods ELSE fr.list)
    ELSE gen_pkgs(f, s, mods, subs, g, fr)

\* g0 is evaluated once and the body goes on from its value
gen_next(f, s, mods, subs, g0) ==
    CHOOSE r \in {IF g.stack = <<>> THEN [g EXCEPT !.res = "StopIteration"]
                  ELSE gen_frame(f, s, mods, subs, g, g.stack[Len(g.stack)]) :
                  g \in {g0}} : TRUE

(***************************************************************************)
(* Project.                                                                *)
(***************************************************************************)
\* data.get(key, default) on the init record, a function on its keys
get(data, key, default) == IF key \in DOMAIN data THEN data[key] ELSE default

\* vlist(name) of Project.load
vlist(data, key) ==
    LET toks == wsplit(get(data, key, ""))
    IN  [i \in 1..Len(toks) |-> replace(strip(toks[i], " "), "%20%", " ")]

\* Project.relsrc with self.src = s
relsrc(s, path) == relpath(path, s)

\* the Package of an explicit entry as it would be with the path as written
pkg_entry_unresolved(s, path, pkgname) == [path |-> path, name |-> pkgname]

\* the (path, name) of the Package of an explicit entry: a relative path is
\* joined to src
pkg_entry(s, path, pkgname) ==
    [path |-> IF ~isabs(path) THEN joinpath(s, path) ELSE path,
     name |-> pkgname]

\* the name of the Package of the default branch as it would be if the name
\* of the record were ignored
default_pkgname_base(nm, s) == basename(s)

\* pkgname = name if name else basename(src)
default_pkgname(nm, s) == IF nm # "" THEN nm ELSE basename(s)

\* the loop of Project.load over the explicit packages entries: the
\* (path, name) pairs of the Packages constructed, in order, and err = TRUE
\* when an entry with two '@' made the unpacking of item.split('@') raise
RECURSIVE load_packages(_, _, _)
load_packages(s, items, acc) ==
    IF items = <<>> THEN [err |-> FALSE, pkgs |-> acc]
    ELSE LET item == Head(items)
             i == find(item, "@")
             parts == split(item, "@")
             path == IF i = -1 THEN item ELSE parts[1]
             pkgname == IF i = -1 THEN basename(item) ELSE parts[2]
         IN  IF i = 0 THEN load_packages(s, Tail(items), acc)
             ELSE IF i # -1 /\ Len(parts) # 2 THEN [err |-> TRUE, pkgs |-> acc]
             ELSE load_packages(s, Tail(items),
                                Append(acc, pkg_entry(s, path, pkgname)))

\* the removal of the paths in set(scripts) & set(modules) from modules,
\* one modules.remove(x) for each such path
RECURSIVE remove_each(_, _)
remove_each(modules, xs) ==
    IF xs = {} THEN modules
    ELSE LET x == CHOOSE y \in xs : TRUE
         IN  remove_each(RemoveFirst(modules, x), xs \ {x})

reconcile(scripts, modules) ==
    IF scripts # <<>> /\ modules # <<>>
    THEN remove_each(modules, Range(scripts) \cap Range(modules))
    ELSE modules

\* [search_item(src, x, excludes) for x in patterns], concatenated
search_all(f, s, pats, excludes) ==
    Flatten([i \in 1..Len(pats) |-> search_item(f, s, pats[i], excludes)])

\* Project.load from the resolved paths on: scripts and modules are the
\* paths the patterns resolved to, packages the packages entries, haspkg
\* tells whether src/__init__.py exists and sc is scan_path(src, excludes),
\* which the call makes in the default branch only
load_units(data, s, scripts, modules, packages, haspkg, sc) ==
    LET nm == get(data, "name", "")
        lp == load_packages(s, packages, <<>>)
        default == packages = <<>> /\ modules = <<>> /\ scripts = <<>>
        pkgs == IF packages # <<>> THEN lp.pkgs
                ELSE IF ~default THEN <<>>
                ELSE IF haspkg
                     THEN <<[path |-> s, name |-> default_pkgname(nm, s)]>>
                ELSE [i \in 1..Len(sc.dirs) |->
                         [path |-> sc.dirs[i], name |-> ""]]
        modules2 == IF default /\ ~haspkg
                    THEN modules \o [i \in 1..Len(sc.files) |->
                                        joinpath(s, sc.files[i])]
                    ELSE modules
        exc == IF packages # <<>> /\ lp.err THEN "ValueError"
               ELSE IF default /\ ~haspkg /\ ~sc.ok THEN "OSError"
               ELSE ""
        kept == reconcile(scripts, modules2)
    IN  [exc      |-> exc,
         scripts  |-> scripts,
         modules  |-> modules,
         Scripts  |-> [i \in 1..Len(scripts) |->
                          NewUnit("Script", relsrc(s, scripts[i]), "", 0)],
         Packages |-> IF exc = "OSError" THEN <<>>
                      ELSE [i \in 1..Len(pkgs) |->
                               NewUnit("Package", pkgs[i].path, pkgs[i].name, 0)],
         Modules  |-> IF exc # "" THEN <<>>
                      ELSE [i \in 1..Len(kept) |->
                               NewUnit("Module", relsrc(s, kept[i]), "", 0)],
         scans    |-> IF default /\ ~haspkg THEN 1 ELSE 0]

\* Project.load with the excludes list made
load_paths(f, data, s, excludes) ==
    load_units(data, s,
               search_all(f, s, vlist(data, "scripts"), excludes),
               search_all(f, s, vlist(data, "modules"), excludes),
               vlist(data, "packages"),
               exists(f, joinpath(s, "__init__.py")),
               scan_path(f, s, <<>>, excludes))

\* Project.load(data) for a record that has src: the paths the scripts and
\* modules patterns resolve to, and the Script, Package and Module objects
\* the call constructs and appends, in this order.  exc names the exception
\* that ends the call early.
load(f, data) ==
    load_paths(f, data, data["src"], vlist(data, "excludes") \o GLOBAL_EXCLS)

\* the init records Project.load is called with
Records == {
    [src |-> "/s"],
    [src |-> "/s/p", name |-> "proj", excludes |-> "a* x%20%y"],
    [src |-> "/s", scripts |-> "m.py", modules |-> "*.py"],
    [src |-> "/s", scripts |-> "m.py u.py", modules |-> "m.py ?.py"],
    [src |-> "/s/p", modules |-> "*.py"],
    [src |-> "/s", packages |-> "@sect nodir p@core"],
    [src |-> "/s", scripts |-> "u.py u.py", modules |-> "m.py ?.py"],
    [src |-> "/s/p"],
    [src |-> "/s", packages |-> "@sect"],
    [name |-> "proj"] }

\* the init records of the Projects that are iterated: top-level Modules
\* and a Package; a Package that is the source directory; a Script, a
\* Package and a Package whose directory does not exist
IterRecords == {
    [src |-> "/s"],
    [src |-> "/s/p"],
    [src |-> "/s", scripts |-> "m.py", packages |-> "p nodir"] }

\* load(f, data), tabulated once for the filesystems and records of the model
LoadTable ==
    [f \in FsStates |->
        [data \in {d \in Records \cup IterRecords : "src" \in DOMAIN d} |->
            load(f, data)]]

\* self.src once line 688 has run or has raised: data['src'] raises KeyError
\* before the assignment, as it would not with the assignment first
src_after_cleared(data, s) == IF "src" \in DOMAIN data THEN data["src"] ELSE ""

\* self.src once line 688 has run or has raised
src_after(data, s) == IF "src" \in DOMAIN data THEN data["src"] ELSE s

\* Project.load(data), as one of at most max calls
Load(data, max) ==
    /\ nloads < max
    /\ nloads' = nloads + 1
    /\ workdir' = TRUE
    /\ src' = src_after(data, src)
    /\ it' = Touched(it)
    /\ UNCHANGED <<code, conf, ncalls>>
    /\ UNCHANGED <<fs, logs, nfsops, _namespaces, _rmodules, nindexed>>
    /\ IF "src" \notin DOMAIN data
       THEN /\ UNCHANGED <<heap, _scripts, _modules, _packages>>
            /\ op' = [name |-> "Project.load", arg |-> data, exc |-> "KeyError"]
       ELSE \E r \in {LoadTable[fs][data]} :
            LET n == Len(heap)
                ns == Len(r.Scripts)
                np == Len(r.Packages)
                nm == Len(r.Modules)
            IN  /\ n + ns + np + nm <= MaxUnits
                /\ heap' = heap \o r.Scripts \o r.Packages \o r.Modules
                /\ _scripts' = _scripts \o [i \in 1..ns |-> n + i]
                /\ _packages' = _packages \o [i \in 1..np |-> n + ns + i]
                /\ _modules' = _modules \o [i \in 1..nm |-> n + ns + np + i]
                /\ op' = [name |-> "Project.load", arg |-> data, exc |-> r.exc,
                          scripts |-> r.scripts, modules |-> r.modules,
                          scans |-> r.scans]

\* Project.load(data), called once on a Project
ProjectLoad(data) == Load(data, MaxLoads)

\* Project.load(data), called on a Project that may be loaded already
ProjectReload(data) == Load(data, MaxReloads)

\* u is owned by the Project h, through the lists of its ancestors
RECURSIVE InTree(_, _, _)
InTree(h, tops, u) ==
    IF h[u].parent = 0 THEN u \in Range(tops)
    ELSE LET par == h[u].parent
         IN  /\ \/ h[par]._modules.some /\ u \in Range(h[par]._modules.v)
                \/ h[par]._packages.some /\ u \in Range(h[par]._packages.v)
             /\ InTree(h, tops, par)

\* the Packages of the Project's tree: the ones a caller walking the tree
\* can call
Packages ==
    {u \in 1..Len(heap) :
        heap[u].cls = "Package" /\ InTree(heap, _packages, u)}

\* Package.load() called on p
PackageLoad(p) ==
    \E l \in {pkg_load(fs, heap, src, p)} :
        /\ Len(l.heap) <= MaxUnits
        /\ heap' = l.heap
        /\ op' = [name |-> "Package.load", arg |-> p,
                  exc |-> IF l.ok THEN "" ELSE "OSError", scans |-> 1]
        /\ it' = Touched(it)
        /\ UNCHANGED <<code, conf, ncalls>>
        /\ UNCHANGED <<fs, workdir, src, _scripts, _modules, _packages,
                       _namespaces, _rmodules, nindexed, logs, nloads,
                       nfsops>>

\* the read of the property Package.modules (attr = "_modules") or
\* Package.packages (attr = "_packages") of p: the generator is returned,
\* nothing has run
PackageAccessor(p, attr) ==
    /\ ~it.on
    /\ it' = [on |-> TRUE, kind |-> attr, root |-> p,
              stack |-> <<Frame(p, "start", <<>>, 0)>>, out |-> <<>>,
              scans |-> 0, alone |-> TRUE, heap0 |-> <<>>]
    /\ op' = [name |-> "Package." \o attr, arg |-> p, exc |-> ""]
    /\ UNCHANGED <<fs, workdir, tree, logs, nloads, nfsops, code, conf, ncalls>>

\* the call p.iter_module(): the generator is returned, nothing has run
PackageIterModule(p) ==
    /\ ~it.on
    /\ it' = [on |-> TRUE, kind |-> "iter_module", root |-> p,
              stack |-> <<Frame(p, "start", <<>>, 0)>>, out |-> <<>>,
              scans |-> 0, alone |-> TRUE, heap0 |-> heap]
    /\ op' = [name |-> "Package.iter_module", arg |-> p, exc |-> ""]
    /\ UNCHANGED <<fs, workdir, tree, logs, nloads, nfsops, code, conf, ncalls>>

\* the call project.iter_module(): the generator is returned, nothing has run
ProjectIterModule ==
    /\ ~it.on
    /\ it' = [on |-> TRUE, kind |-> "iter_module", root |-> 0,
              stack |-> <<Frame(0, "mods", <<>>, 1)>>, out |-> <<>>,
              scans |-> 0, alone |-> TRUE, heap0 |-> heap]
    /\ op' = [name |-> "Project.iter_module", arg |-> 0, exc |-> ""]
    /\ UNCHANGED <<fs, workdir, tree, logs, nloads, nfsops, code, conf, ncalls>>

\* next() on the generator: ret is the list of the objects yielded so far
IterNext ==
    /\ it.on
    /\ \E r \in {gen_next(fs, src, _modules, _packages \o _namespaces,
                          [kind |-> it.kind, heap |-> heap,
                           stack |-> it.stack, scans |-> it.scans,
                           res |-> "", val |-> 0])} :
        /\ heap' = r.heap
        /\ it' = IF r.res = ""
                 THEN [it EXCEPT !.stack = r.stack, !.scans = r.scans,
                                 !.out = Append(@, r.val)]
                 ELSE NoIter
        /\ op' = [name |-> "next", kind |-> it.kind, arg |-> it.root,
                  exc |-> r.res,
                  ret |-> IF r.res = "" THEN Append(it.out, r.val) ELSE it.out,
                  scans |-> r.scans, alone |-> it.alone]
        /\ UNCHANGED <<code, conf, ncalls>>
        /\ UNCHANGED <<fs, workdir, src, _scripts, _modules, _packages,
                       _namespaces, _rmodules, nindexed, logs, nloads,
                       nfsops>>

\* the dict as it would be if keyed by name instead of qualname
rmodules_dict_byname(h, mods) ==
    [q \in {name(h, mods[i]) : i \in 1..Len(mods)} |->
        mods[CHOOSE i \in 1..Len(mods) :
                /\ name(h, mods[i]) = q
                /\ \A j \in 1..Len(mods) : name(h, mods[j]) = q => j <= i]]

\* the dict {x.qualname: x for x in modules}: a later module replaces an
\* earlier one of the same qualname
rmodules_dict(h, mods) ==
    [q \in {qualname(h, mods[i]) : i \in 1..Len(mods)} |->
        mods[CHOOSE i \in 1..Len(mods) :
                /\ qualname(h, mods[i]) = q
                /\ \A j \in 1..Len(mods) : qualname(h, mods[j]) = q => j <= i]]

\* dict.get(key)
dict_get(d, key) == IF key \in DOMAIN d THEN Some(d[key]) ELSE None

\* the qualnames Project.get_module is asked for
QualNames == {"u", "p", "p.q.b", "p.x"}

\* the test of get_module as it would be if every call built the index
index_missing_always(rm) == TRUE

\* self._rmodules is None
index_missing(rm) == ~rm.some

\* Project.get_module(q)
GetModule(q) ==
    \E build \in {index_missing(_rmodules)} :
    \E st \in {IF build
                THEN iter_module(fs, heap, src, _modules, _packages, _namespaces)
                ELSE [ok |-> TRUE, heap |-> heap, out |-> <<>>, scans |-> 0]} :
    \E idx \in {IF ~build THEN _rmodules.v
                 ELSE IF st.ok THEN rmodules_dict(st.heap, st.out)
                 ELSE <<>>} :
        /\ build => Len(st.heap) <= MaxUnits
        /\ heap' = IF build THEN st.heap ELSE heap
        /\ _rmodules' = IF build /\ st.ok THEN Some(idx) ELSE _rmodules
        /\ nindexed' = IF build /\ st.ok THEN Len(st.heap) ELSE nindexed
        /\ op' = IF build /\ ~st.ok
                 THEN [name |-> "Project.get_module", arg |-> q,
                       exc |-> "OSError", scans |-> st.scans]
                 ELSE [name |-> "Project.get_module", arg |-> q, exc |-> "",
                       ret |-> dict_get(idx, q),
                       scans |-> IF build THEN st.scans ELSE 0]
        /\ it' = Touched(it)
        /\ UNCHANGED <<code, conf, ncalls>>
        /\ UNCHANGED <<fs, workdir, src, _scripts, _modules, _packages,
                       _namespaces, logs, nloads, nfsops>>

\* the environment creates or deletes one volatile file
FsChange(path) ==
    /\ nfsops < MaxFsOps
    /\ nfsops' = nfsops + 1
    /\ dirname(path) \in fs
    /\ fs' = IF path \in fs THEN fs \ {path} ELSE fs \cup {path}
    /\ op' = [name |-> "FsChange", arg |-> path, exc |-> ""]
    /\ UNCHANGED <<code, conf, ncalls>>
    /\ UNCHANGED <<workdir, tree, logs, nloads, it>>

(***************************************************************************)
(* The diagnostic logs.  A caller of log_unknown_call is either a str      *)
(* (t = "str", s the string) or an object with a module and a list of      *)
(* scopes (t = "obj").                                                     *)
(***************************************************************************)
\* '%s:%s' % (module, var)
var_key(module, var) == module \o ":" \o var

\* log_unknown_var as it would be without the membership test
log_unknown_var_nocheck(log, module, var) == Append(log, var_key(module, var))

\* log_unknown_var(module, var): the new unknown_vars
log_unknown_var(log, module, var) ==
    IF var_key(module, var) \notin Range(log)
    THEN Append(log, var_key(module, var))
    ELSE log

\* log_unknown_call as it would be if a str key were kept in unknown_calls
log_unknown_call_tocalls(vs, cs, as, func) ==
    LET fields == split(func.s, ":")
        nm == join(":", <<func.module, join(".", func.scopes)>>)
        same == [exc |-> "", vars |-> vs, calls |-> cs, args |-> as]
    IN  IF func.t = "str"
        THEN IF Len(fields) < 3 THEN [same EXCEPT !.exc = "IndexError"]
             ELSE IF find(fields[3], ".") = -1
                  THEN [same EXCEPT !.exc = "TypeError"]
             ELSE IF func.s \notin Range(cs)
                  THEN [same EXCEPT !.calls = Append(cs, func.s)]
             ELSE same
        ELSE IF nm \notin Range(cs) THEN [same EXCEPT !.calls = Append(cs, nm)]
             ELSE same

\* log_unknown_call(func): the exception it raises, if any, and the new
\* unknown_vars, unknown_calls and unknown_args.  In the str branch
\* fields[2] raises IndexError when there are fewer than three fields, and
\* '%s:%s.%s' % fields raises TypeError because fields is a list, so that
\* log_unknown_var is never reached.
log_unknown_call(vs, cs, as, func) ==
    LET fields == split(func.s, ":")
        nm == join(":", <<func.module, join(".", func.scopes)>>)
        same == [exc |-> "", vars |-> vs, calls |-> cs, args |-> as]
    IN  IF func.t = "str"
        THEN IF Len(fields) < 3 THEN [same EXCEPT !.exc = "IndexError"]
             ELSE IF find(fields[3], ".") = -1
                  THEN [same EXCEPT !.exc = "TypeError"]
             ELSE IF func.s \notin Range(as)
                  THEN [same EXCEPT !.args = Append(as, func.s)]
             ELSE same
        ELSE IF nm \notin Range(cs) THEN [same EXCEPT !.calls = Append(cs, nm)]
             ELSE same

\* the arguments the logging operations are called with
LogModules == {"m", "m:f"}
LogVars == {"x", "f:x"}
LogFuncs == {
    [t |-> "str", s |-> "m:f:x"],
    [t |-> "str", s |-> "m:f:x.y"],
    [t |-> "str", s |-> "m:f.x"],
    [t |-> "obj", module |-> "m", scopes |-> <<"f", "x">>],
    [t |-> "obj", module |-> "m", scopes |-> <<"f:x.y">>] }

\* the number of entries in the list logs
LogSize == Len(unknown_vars) + Len(unknown_calls) + Len(unknown_args)

\* Project.log_unknown_var(module, var)
LogUnknownVar(module, var) ==
    LET new == log_unknown_var(unknown_vars, module, var)
    IN  /\ Len(new) - Len(unknown_vars) + LogSize <= MaxLog
        /\ unknown_vars' = new
        /\ op' = [name |-> "Project.log_unknown_var",
                  arg |-> <<module, var>>, exc |-> ""]
        /\ UNCHANGED <<code, conf, ncalls>>
        /\ UNCHANGED it
        /\ UNCHANGED <<fs, workdir, tree, unknown_attrs, unknown_calls,
                       unknown_args, nloads, nfsops>>

\* Project.log_unknown_call(func)
LogUnknownCall(func) ==
    LET r == log_unknown_call(unknown_vars, unknown_calls, unknown_args, func)
    IN  /\ Len(r.vars) + Len(r.calls) + Len(r.args) <= MaxLog
        /\ unknown_vars' = r.vars
        /\ unknown_calls' = r.calls
        /\ unknown_args' = r.args
        /\ op' = [name |-> "Project.log_unknown_call", arg |-> func,
                  exc |-> r.exc]
        /\ UNCHANGED <<code, conf, ncalls>>
        /\ UNCHANGED <<fs, workdir, tree, unknown_attrs, nloads, nfsops, it>>

\* the directories, include lists and exclude lists scan_path is called with
ScanDirs == {"/s", "/s/p", "/s/p/q", "/s/u.py", "/s/x"}
ScanIncludes == {<<>>, <<"*.txt">>, <<"a*", "*.py">>}
ScanExcludes == {<<>>, GLOBAL_EXCLS, <<"a*", "?.py">>}

\* scan_path(path, includes, excludes) called on the filesystem as it is
ScanPath(path, includes, excludes) ==
    \E r \in {scan_path(fs, path, includes, excludes)} :
        /\ op' = [name |-> "scan_path",
                  arg |-> [path |-> path, includes |-> includes,
                           excludes |-> excludes],
                  exc |-> IF r.ok THEN "" ELSE "OSError",
                  files |-> r.files, dirs |-> r.dirs]
        /\ UNCHANGED <<fs, workdir, tree, logs, nloads, nfsops, code, conf,
                       ncalls>>
        /\ UNCHANGED it

(***************************************************************************)
(* The caches of a Module: the parsed tree and the compiled code object.   *)
(* A tree is a record of its identity (id) and the text it was parsed      *)
(* from; a code object is a record of its identity and the tree it was     *)
(* compiled from.  The text "" stands for a file that does not exist.      *)
(***************************************************************************)
\* at most this many calls on one Module, or on the rft properties
MaxCalls == 3

\* the texts of the file: absent, not parsable, parsable but not compilable
\* ('return' outside a function), and two that compile
Texts == {"", "x = (", "return", "x = 1", "x = 2"}

\* ast.parse(text): exc names the exception raised
ast_parse(text) == IF text = "x = (" THEN "SyntaxError" ELSE ""

\* compile(tree, filename, 'exec') for a tree parsed from text
compile(text) == IF text = "return" THEN "SyntaxError" ELSE ""

\* Module.parse_file as it would be without the test of the cached tree
parse_file_always(m, text, force, id) ==
    IF text = "" THEN [exc |-> "OSError", mod |-> m, reads |-> 0]
    ELSE IF ast_parse(text) # ""
         THEN [exc |-> ast_parse(text), mod |-> m, reads |-> 1]
    ELSE [exc |-> "", reads |-> 1,
          mod |-> [m EXCEPT !._tree = Some([id |-> id, text |-> text])]]

\* Module.parse_file(force) on the Module m whose file holds text; id is
\* the identity of the tree a parse creates, reads the number of times the
\* text of the file was read
parse_file(m, text, force, id) ==
    IF m._tree.some /\ ~force THEN [exc |-> "", mod |-> m, reads |-> 0]
    ELSE IF text = "" THEN [exc |-> "OSError", mod |-> m, reads |-> 0]
    ELSE IF ast_parse(text) # ""
         THEN [exc |-> ast_parse(text), mod |-> m, reads |-> 1]
    ELSE [exc |-> "", reads |-> 1,
          mod |-> [m EXCEPT !._tree = Some([id |-> id, text |-> text])]]

\* the rest of Module.compile_file once self.parse_file has returned r
compile_parsed(r, id) ==
    IF r.exc # ""
    THEN [exc |-> r.exc, mod |-> r.mod, reads |-> r.reads, compiles |-> 0]
    ELSE IF compile(r.mod._tree.v.text) # ""
         THEN [exc |-> compile(r.mod._tree.v.text), mod |-> r.mod,
               reads |-> r.reads, compiles |-> 0]
    ELSE [exc |-> "", reads |-> r.reads, compiles |-> 1,
          mod |-> [r.mod EXCEPT
                     !._co = Some([id |-> id, tree |-> r.mod._tree.v.id])]]

\* Module.compile_file(force)
compile_file(m, text, force, id) ==
    IF m._co.some /\ ~force
    THEN [exc |-> "", mod |-> m, reads |-> 0, compiles |-> 0]
    ELSE compile_parsed(parse_file(m, text, force, id), id)

\* Module.parse_file(force=force) called on mod
ParseFile(force) ==
    \E r \in {parse_file(mod, file, force, ncalls + 1)} :
        /\ ncalls < MaxCalls
        /\ ncalls' = ncalls + 1
        /\ mod' = r.mod
        /\ op' = [name |-> "Module.parse_file", arg |-> force, exc |-> r.exc,
                  reads |-> r.reads]
        /\ UNCHANGED <<fs, workdir, tree, logs, nloads, nfsops, file, conf>>
        /\ UNCHANGED it

\* Module.compile_file(force=force) called on mod
CompileFile(force) ==
    \E r \in {compile_file(mod, file, force, ncalls + 1)} :
        /\ ncalls < MaxCalls
        /\ ncalls' = ncalls + 1
        /\ mod' = r.mod
        /\ op' = [name |-> "Module.compile_file", arg |-> force,
                  exc |-> r.exc, reads |-> r.reads, compiles |-> r.compiles]
        /\ UNCHANGED <<fs, workdir, tree, logs, nloads, nfsops, file, conf>>
        /\ UNCHANGED it

\* the environment rewrites, creates or deletes the file
FileChange(text) ==
    /\ text # file
    /\ file' = text
    /\ op' = [name |-> "FileChange", arg |-> text, exc |-> ""]
    /\ UNCHANGED <<fs, workdir, tree, logs, nloads, nfsops, mod, conf, ncalls>>
    /\ UNCHANGED it

(***************************************************************************)
(* The config store and the rft properties of the Project.                 *)
(***************************************************************************)
\* the rft properties and the section of the config store each one reads
RftSection ==
    [rft_options |-> "rft_option", rft_filters |-> "rft_filter",
     rft_rulers |-> "rft_ruler"]

\* the sections the rft properties read
Sections == {RftSection[p] : p \in DOMAIN RftSection}

\* the items of a section, a set of (option, value) pairs
Mappings == {{}, {<<"k", "1">>}, {<<"k", "2">>}}

\* cfg.has_section(sect)
has_section(c, sect) == c[sect].some

\* dict(cfg.items(sect))
items(c, sect) == c[sect].v

\* an rft property as it would be with the test 'if not self._rft_options'
rft_property_falsy(c, r, prop, id) ==
    LET attr == "_" \o prop
        sect == RftSection[prop]
    IN  IF ~r[attr].some \/ r[attr].v.items = {}
        THEN [reads |-> 1,
              rft   |-> [r EXCEPT ![attr] =
                           Some([id    |-> id,
                                 items |-> IF has_section(c, sect)
                                           THEN items(c, sect) ELSE {}])]]
        ELSE [reads |-> 0, rft |-> r]

\* the property rft_options, rft_filters or rft_rulers read on a Project
\* whose attributes are r, with the config store c: the attributes after
\* the read, and the number of times the store was read.  A mapping is a
\* record of its identity (id) and its items.
rft_property(c, r, prop, id) ==
    LET attr == "_" \o prop
        sect == RftSection[prop]
    IN  IF ~r[attr].some
        THEN [reads |-> 1,
              rft   |-> [r EXCEPT ![attr] =
                           Some([id    |-> id,
                                 items |-> IF has_section(c, sect)
                                           THEN items(c, sect) ELSE {}])]]
        ELSE [reads |-> 0, rft |-> r]

\* project.rft_options, project.rft_filters or project.rft_rulers is read
RftProperty(prop) ==
    \E r \in {rft_property(cfg, rft, prop, ncalls + 1)} :
        /\ ncalls < MaxCalls
        /\ ncalls' = ncalls + 1
        /\ rft' = r.rft
        /\ op' = [name |-> "Project." \o prop, arg |-> prop, exc |-> "",
                  ret |-> r.rft["_" \o prop].v, reads |-> r.reads]
        /\ UNCHANGED <<fs, workdir, tree, logs, nloads, nfsops, code, cfg>>
        /\ UNCHANGED it

\* the environment adds, removes or rewrites a section of the config store
StoreChange(sect, v) ==
    /\ cfg[sect] # v
    /\ cfg' = [cfg EXCEPT ![sect] = v]
    /\ op' = [name |-> "StoreChange", arg |-> sect, exc |-> ""]
    /\ UNCHANGED <<fs, workdir, tree, logs, nloads, nfsops, code, rft, ncalls>>
    /\ UNCHANGED it

\* the state after Project.__init__, on some filesystem
Init ==
    /\ fs \in FsLayouts
    /\ workdir = FALSE
    /\ heap = <<>>
    /\ src = ""
    /\ _scripts = <<>>
    /\ _modules = <<>>
    /\ _packages = <<>>
    /\ _namespaces = <<>>
    /\ _rmodules = None
    /\ nindexed = 0
    /\ unknown_vars = <<>>
    /\ unknown_attrs = <<>>
    /\ unknown_calls = <<>>
    /\ unknown_args = <<>>
    /\ op = [name |-> "Project.__init__", exc |-> ""]
    /\ nloads = 0
    /\ nfsops = 0
    /\ file = "x = 1"
    /\ mod = [_tree |-> None, _co |-> None]
    /\ cfg = [sect \in Sections |-> None]
    /\ rft = [_rft_options |-> None, _rft_filters |-> None,
              _rft_rulers |-> None]
    /\ ncalls = 0
    /\ it = NoIter

Next ==
    \/ \E data \in Records : ProjectLoad(data)
    \/ \E p \in Packages : PackageLoad(p)
    \/ \E q \in QualNames : GetModule(q)
    \/ \E path \in Volatile : FsChange(path)

Spec == Init /\ [][Next]_vars

\* the logging operations alone: they neither read nor write the tree
NextLog ==
    \/ \E module \in LogModules : \E var \in LogVars :
          LogUnknownVar(module, var)
    \/ \E func \in LogFuncs : LogUnknownCall(func)

SpecLog == Init /\ [][NextLog]_vars

\* a Project loaded more than once and looked up, on a changing filesystem
NextReload ==
    \/ \E data \in Records : ProjectReload(data)
    \/ \E q \in QualNames : GetModule(q)
    \/ \E path \in Volatile : FsChange(path)

SpecReload == Init /\ [][NextReload]_vars

\* the calls on one Module, while the environment changes its file
NextCode ==
    \/ \E force \in BOOLEAN : ParseFile(force)
    \/ \E force \in BOOLEAN : CompileFile(force)
    \/ \E text \in Texts : FileChange(text)

SpecCode == Init /\ [][NextCode]_vars

\* the iterations over the lists of the Packages of a Project, through the
\* accessors modules and packages: the Packages are loaded by a caller or
\* by an accessor, on a changing filesystem
NextAccess ==
    \/ \E data \in IterRecords : ProjectLoad(data)
    \/ \E p \in Packages : PackageLoad(p)
    \/ \E p \in Packages : \E attr \in {"_modules", "_packages"} :
          PackageAccessor(p, attr)
    \/ IterNext
    \/ \E path \in Volatile : FsChange(path)

SpecAccess == Init /\ [][NextAccess]_vars

\* the iterations over the modules of a Project whose Packages are loaded
\* by a caller or by the iteration, on a changing filesystem
NextIter ==
    \/ \E data \in IterRecords : ProjectLoad(data)
    \/ \E p \in Packages : PackageLoad(p)
    \/ \E p \in Packages : PackageIterModule(p)
    \/ ProjectIterModule
    \/ IterNext
    \/ \E path \in Volatile : FsChange(path)

\* next() can be called on every generator held: the body run by the call
\* comes to a yield, to its end or to an exception, and the generator is
\* another afterwards (one more object yielded, or exhausted)
NextIsEnabled ==
    it.on => \E r \in {gen_next(fs, src, _modules, _packages \o _namespaces,
                                [kind |-> it.kind, heap |-> heap,
                                 stack |-> it.stack, scans |-> it.scans,
                                 res |-> "", val |-> 0])} :
                r.res \in {"", "StopIteration", "OSError"}

\* a caller that holds a generator goes on calling next() on it: weak
\* fairness of IterNext, WF_vars(IterNext), with the enabling condition
\* ENABLED <<IterNext>>_vars written as the state predicate it.on that
\* NextIsEnabled shows it to be
FairNext == []<>(~it.on) \/ []<><<IterNext>>_vars

SpecIter == Init /\ [][NextIter]_vars /\ FairNext

\* the calls of scan_path, on a changing filesystem
NextScan ==
    \/ \E path \in ScanDirs, includes \in ScanIncludes,
          excludes \in ScanExcludes : ScanPath(path, includes, excludes)
    \/ \E path \in Volatile : FsChange(path)

SpecScan == Init /\ [][NextScan]_vars

\* the reads of the rft properties, while the config store changes
NextRft ==
    \/ \E prop \in DOMAIN RftSection : RftProperty(prop)
    \/ \E sect \in Sections, v \in {None} \cup {Some(m) : m \in Mappings} :
          StoreChange(sect, v)

SpecRft == Init /\ [][NextRft]_vars

(***************************************************************************)
(* Properties.                                                             *)
(***************************************************************************)
\* the units the Project h owns that are not Scripts
TreeUnits(h, mods, pkgs) ==
    {u \in 1..Len(h) : h[u].cls # "Script" /\ InTree(h, mods \o pkgs, u)}

\* the Modules iter_module can reach: top-level or in a loaded Package
TreeModules(h, mods, pkgs) ==
    {u \in TreeUnits(h, mods, pkgs) : h[u].cls = "Module"}

\* the current children of Package p
Children(h, p) ==
    (IF h[p]._modules.some THEN Range(h[p]._modules.v) ELSE {})
    \cup (IF h[p]._packages.some THEN Range(h[p]._packages.v) ELSE {})

NoDup(s) == \A i, j \in 1..Len(s) : i # j => s[i] # s[j]

\* C1: after Project.load, every path resolved both by the scripts patterns
\* and by the modules patterns is the path of a Script and of no top-level
\* Module.
C1_ScriptsWinOverlap ==
    (op.name = "Project.load" /\ op.exc = "") =>
        \A x \in Range(op.scripts) \cap Range(op.modules) :
            /\ \E u \in Range(_scripts) : heap[u]._path = relsrc(src, x)
            /\ \A u \in Range(_modules) : heap[u]._path # relsrc(src, x)

\* C2: no two distinct non-Script units of the Project's tree (top-level
\* Modules and Packages, and the Modules and Packages of loaded Packages) have
\* the same qualname.
C2_UniqueQualnames ==
    \A u, v \in TreeUnits(heap, _modules, _packages) :
        u # v => qualname(heap, u) # qualname(heap, v)

\* C3: in every state the two lists of a Package are both None or both
\* loaded.  The first next() on an accessor of a Package whose list is
\* there scans nothing and changes nothing; when the list is None it makes
\* the one scan, and unless the scan fails both lists of the Package are
\* loaded afterwards.  The later next() scan nothing and change nothing.
\* The accessor yields, in order, the objects of the list it found or
\* loaded at its first next(); iterated to its end with no other call on
\* the tree meanwhile, it has yielded exactly the objects of the list the
\* Package has.
C3_AccessorsLoadOnce ==
    [][ /\ \A p \in 1..Len(heap) :
              heap[p]._modules.some <=> heap[p]._packages.some
        /\ (op'.name = "next" /\ op'.kind \in {"_modules", "_packages"}) =>
              LET p == op'.arg
                  attr == op'.kind
                  fr == it.stack[1]
              IN  /\ op'.exc \in {"", "StopIteration", "OSError"}
                  /\ (fr.pc = "start" /\ heap[p][attr].some) =>
                        /\ op'.exc # "OSError"
                        /\ op'.scans = 0
                        /\ heap' = heap
                  /\ (fr.pc = "start" /\ ~heap[p][attr].some) =>
                        op'.scans = 1
                  /\ fr.pc # "start" =>
                        /\ op'.exc # "OSError"
                        /\ op'.scans = it.scans
                        /\ heap' = heap
                  /\ op'.exc = "OSError" =>
                        /\ heap' = heap
                        /\ op'.ret = <<>>
                  /\ op'.exc # "OSError" =>
                        /\ heap'[p]._modules.some
                        /\ heap'[p]._packages.some
                  /\ op'.exc = "" =>
                        /\ it'.stack[1].list =
                              IF fr.pc = "start" THEN heap'[p][attr].v
                              ELSE fr.list
                        /\ op'.ret =
                              SubSeq(it'.stack[1].list, 1, Len(op'.ret))
                  /\ op'.exc = "StopIteration" =>
                        /\ op'.ret = IF fr.pc = "start" THEN heap'[p][attr].v
                                     ELSE fr.list
                        /\ op'.alone => op'.ret = heap'[p][attr].v ]_vars

\* C3 witness: the packages accessor of a loaded Package has been iterated
\* to its end, with no other call on the tree meanwhile: it has served the
\* sub-packages without a scan.
C3_Witness ==
    /\ op.name = "next" /\ op.kind = "_packages"
    /\ op.exc = "StopIteration" /\ op.alone
    /\ op.scans = 0
    /\ op.ret # <<>>
    /\ op.ret = heap[op.arg]._packages.v
    /\ heap[op.arg]._modules.some

\* C4: Package.load() called on a Package that is already loaded is a no-op:
\* it makes no scan and leaves every object, the two lists of the Package
\* and their child objects among them, as it was.
C4_LoadIsNoOpWhenLoaded ==
    [][ ( /\ op'.name = "Package.load"
          /\ heap[op'.arg]._modules.some
          /\ heap[op'.arg]._packages.some )
        => (heap' = heap /\ op'.scans = 0) ]_vars

\* C5 as claimed: under a Package the qualname is the parent's qualname,
\* followed by '.' and the name when the name is not empty; under the Project
\* it is the unit's name.
C5_QualnameFromParent ==
    \A u \in 1..Len(heap) :
        IF heap[u].parent # 0
        THEN qualname(heap, u) =
                IF name(heap, u) # ""
                THEN qualname(heap, heap[u].parent) \o "." \o name(heap, u)
                ELSE qualname(heap, heap[u].parent)
        ELSE qualname(heap, u) = name(heap, u)

\* C5 as amended: under the Project the qualname is the unit's _name, the
\* file stem or the given name, which is '__init__' and not the empty name
\* for an __init__ file.
C5_QualnameFromParentOrStem ==
    \A u \in 1..Len(heap) :
        IF heap[u].parent # 0
        THEN qualname(heap, u) =
                IF name(heap, u) # ""
                THEN qualname(heap, heap[u].parent) \o "." \o name(heap, u)
                ELSE qualname(heap, heap[u].parent)
        ELSE /\ qualname(heap, u) = heap[u]._name
             /\ qualname(heap, u) = splitext0(basename(heap[u]._path))
                \/ heap[u].cls = "Package"

\* C5 witness: a Module two Packages deep with a name, and an __init__
\* Module in a Package, are loaded.
C5_Witness ==
    /\ \E u \in 1..Len(heap) :
          /\ heap[u].parent # 0
          /\ heap[heap[u].parent].parent # 0
          /\ qualname(heap, u) = "p.q.b"
    /\ \E u \in 1..Len(heap) :
          heap[u].parent # 0 /\ name(heap, u) = "" /\ qualname(heap, u) = "p"

\* C6 as claimed: an __init__ unit has the empty name; its qualname is its
\* parent's under a Package and the empty string under the Project.
C6_InitCollapses ==
    \A u \in 1..Len(heap) :
        heap[u]._name = "__init__" =>
            /\ name(heap, u) = ""
            /\ heap[u].parent # 0 =>
                  qualname(heap, u) = qualname(heap, heap[u].parent)
            /\ heap[u].parent = 0 => qualname(heap, u) = ""

\* C6 as amended: under the Project the qualname of an __init__ unit is the
\* literal '__init__' although its name is empty.
C6_InitCollapsesInPackages ==
    \A u \in 1..Len(heap) :
        heap[u]._name = "__init__" =>
            /\ name(heap, u) = ""
            /\ heap[u].parent # 0 =>
                  qualname(heap, u) = qualname(heap, heap[u].parent)
            /\ heap[u].parent = 0 => qualname(heap, u) = "__init__"

\* C6 witness: a top-level Module made from an __init__.py file.
C6_Witness ==
    \E u \in Range(_modules) :
        heap[u]._path = "__init__.py" /\ heap[u]._name = "__init__"

\* C7 as claimed: get_module(q) returns None, without an error, when q is the
\* qualname of no Module of the tree; a unit it returns has qualname q; and
\* once the index is there the result is the index's entry for q, the same
\* on every call.
C7_GetModule ==
    [][ op'.name = "Project.get_module" =>
          LET q == op'.arg
              known == {qualname(heap', u) :
                           u \in TreeModules(heap', _modules', _packages')}
          IN  /\ q \notin known => (op'.exc = "" /\ op'.ret = None)
              /\ (op'.exc = "" /\ op'.ret.some) =>
                    qualname(heap', op'.ret.v) = q
              /\ _rmodules.some =>
                    /\ op'.exc = ""
                    /\ op'.ret = dict_get(_rmodules.v, q)
                    /\ _rmodules' = _rmodules ]_vars

\* C7 as amended: the index is built by the first call that returns, from
\* the Modules of the tree at that moment, and never changes afterwards; a
\* call returns the index's entry for q, whose qualname is q, or None; only a
\* call that has to build the index can raise, and it then leaves no index.
C7_GetModuleIndex ==
    [][ /\ _rmodules.some => _rmodules' = _rmodules
        /\ op'.name = "Project.get_module" =>
              LET q == op'.arg
                  mods == TreeModules(heap', _modules', _packages')
              IN  /\ op'.exc = "" =>
                        /\ _rmodules'.some
                        /\ q \in DOMAIN _rmodules'.v =>
                              /\ op'.ret = Some(_rmodules'.v[q])
                              /\ qualname(heap', op'.ret.v) = q
                        /\ q \notin DOMAIN _rmodules'.v => op'.ret = None
                  /\ op'.exc # "" => ~_rmodules.some /\ ~_rmodules'.some
                  /\ (~_rmodules.some /\ op'.exc = "") =>
                        /\ DOMAIN _rmodules'.v =
                              {qualname(heap', u) : u \in mods}
                        /\ \A k \in DOMAIN _rmodules'.v :
                              /\ _rmodules'.v[k] \in mods
                              /\ qualname(heap', _rmodules'.v[k]) = k ]_vars

\* C7 witness: get_module has returned a Module that is no longer in the
\* tree, for the qualname it had when the index was built.
C7_Witness ==
    /\ op.name = "Project.get_module"
    /\ op.exc = ""
    /\ op.ret.some
    /\ op.ret.v \notin TreeModules(heap, _modules, _packages)
    /\ op.arg \notin {qualname(heap, u) :
                         u \in TreeModules(heap, _modules, _packages)}

\* the string argument of a log_unknown_call step, "" for a structured one
StrArg(o) == IF o.arg.t = "str" THEN o.arg.s ELSE ""

\* C8: no key is twice in unknown_vars, unknown_calls or unknown_args, and
\* after log_unknown_var the key of the call is in unknown_vars.
C8_LogsHaveNoDuplicates ==
    /\ NoDup(unknown_vars)
    /\ NoDup(unknown_calls)
    /\ NoDup(unknown_args)
    /\ op.name = "Project.log_unknown_var" =>
          var_key(op.arg[1], op.arg[2]) \in Range(unknown_vars)

\* C8 witness: log_unknown_var was called with a key that was recorded
\* before; a later key follows it in the list.
C8_Witness ==
    /\ op.name = "Project.log_unknown_var"
    /\ Len(unknown_vars) >= 2
    /\ var_key(op.arg[1], op.arg[2]) = unknown_vars[1]

\* C9: log_unknown_call with a plain 'module:function:name' key that has no
\* '.' returns without an error; unknown_vars is unchanged or has one new
\* entry at its end that was not there, and has an entry afterwards; the
\* other lists are unchanged.
C9_PlainKeyGoesToVars ==
    [][ ( /\ op'.name = "Project.log_unknown_call"
          /\ op'.arg.t = "str"
          /\ Len(split(StrArg(op'), ":")) = 3
          /\ find(StrArg(op'), ".") = -1 )
        => /\ op'.exc = ""
           /\ \/ unknown_vars' = unknown_vars /\ unknown_vars # <<>>
              \/ /\ Len(unknown_vars') = Len(unknown_vars) + 1
                 /\ SubSeq(unknown_vars', 1, Len(unknown_vars)) = unknown_vars
                 /\ unknown_vars'[Len(unknown_vars')] \notin Range(unknown_vars)
           /\ unknown_calls' = unknown_calls
           /\ unknown_args' = unknown_args ]_vars

\* C10 as claimed: log_unknown_call with a string key whose name part has a
\* '.' appends the key to unknown_calls unless it is there.
C10_DottedKeyGoesToCalls ==
    [][ ( /\ op'.name = "Project.log_unknown_call"
          /\ op'.arg.t = "str"
          /\ Len(split(StrArg(op'), ":")) = 3
          /\ find(split(StrArg(op'), ":")[3], ".") # -1 )
        => unknown_calls' =
              IF StrArg(op') \in Range(unknown_calls)
              THEN unknown_calls
              ELSE Append(unknown_calls, StrArg(op')) ]_vars

\* C10 as amended: such a key is appended to unknown_args unless it is
\* there; unknown_calls and unknown_vars are unchanged and nothing is raised.
C10_DottedKeyGoesToArgs ==
    [][ ( /\ op'.name = "Project.log_unknown_call"
          /\ op'.arg.t = "str"
          /\ Len(split(StrArg(op'), ":")) = 3
          /\ find(split(StrArg(op'), ":")[3], ".") # -1 )
        => /\ op'.exc = ""
           /\ unknown_args' =
                 IF StrArg(op') \in Range(unknown_args)
                 THEN unknown_args
                 ELSE Append(unknown_args, StrArg(op'))
           /\ unknown_calls' = unknown_calls
           /\ unknown_vars' = unknown_vars ]_vars

\* C10 witness: a dotted string key was logged and is in unknown_args and not
\* in unknown_calls, which holds a structured caller's key.
C10_Witness ==
    /\ op.name = "Project.log_unknown_call"
    /\ op.arg.t = "str"
    /\ op.exc = ""
    /\ find(op.arg.s, ".") # -1
    /\ op.arg.s \in Range(unknown_args)
    /\ op.arg.s \notin Range(unknown_calls)
    /\ unknown_calls # <<>>


(***************************************************************************)
(* C11: in any sequence of parse_file / compile_file calls on one Module,  *)
(* a call without force on a cached tree (parse_file) or a cached code     *)
(* object (compile_file) changes nothing and does not read the file; a     *)
(* call without force replaces the tree only when none was cached and the  *)
(* code object only when none was cached, and a cached tree or code object *)
(* never goes back to None: so without force the file is parsed at most    *)
(* once and compiled at most once.                                         *)
(***************************************************************************)
C11_CachedWithoutForce ==
    [][/\ (op'.name = "Module.parse_file" /\ ~op'.arg /\ mod._tree.some)
            => (mod' = mod /\ op'.reads = 0 /\ op'.exc = "")
       /\ (op'.name = "Module.compile_file" /\ ~op'.arg /\ mod._co.some)
            => (mod' = mod /\ op'.reads = 0 /\ op'.compiles = 0
                /\ op'.exc = "")
       /\ (op'.name \in {"Module.parse_file", "Module.compile_file"}
           /\ ~op'.arg)
            => /\ mod'._tree # mod._tree => ~mod._tree.some
               /\ mod'._co # mod._co => ~mod._co.some
               /\ op'.reads > 0 => ~mod._tree.some
       /\ mod._tree.some => mod'._tree.some
       /\ mod._co.some => mod'._co.some
      ]_vars

\* parse_file without force has returned the cached tree although the file
\* no longer holds the text that tree was parsed from
C11_Witness ==
    /\ op.name = "Module.parse_file" /\ ~op.arg /\ op.reads = 0
    /\ mod._tree.some /\ mod._tree.v.text # file /\ file # ""
    /\ mod._co.some

(***************************************************************************)
(* C12: Project.load called with a record that has no 'src' raises         *)
(* KeyError and commits nothing: the project's src and its lists of        *)
(* scripts, modules, packages and namespaces, and every object of the      *)
(* tree, are exactly as before the call.                                   *)
(***************************************************************************)
C12_NoSrcNoChange ==
    [][(op'.name = "Project.load" /\ "src" \notin DOMAIN op'.arg)
         => /\ op'.exc = "KeyError"
            /\ src' = src /\ heap' = heap
            /\ _scripts' = _scripts /\ _modules' = _modules
            /\ _packages' = _packages /\ _namespaces' = _namespaces
      ]_vars

\* a loaded Project has been loaded again, with a record without 'src'
C12_Witness ==
    /\ op.name = "Project.load" /\ op.exc = "KeyError"
    /\ nloads = 2 /\ src # "" /\ _modules # <<>>

\* the paths of the units of a list of the Project
Paths(h, l) == [i \in 1..Len(l) |-> h[l[i]]._path]

(***************************************************************************)
(* C13: Project.load is idempotent: a second call with the same record,    *)
(* right after the first and on the same filesystem, leaves the scripts,   *)
(* the top-level modules and the top-level packages the same, in count and *)
(* in paths, as after the first call.                                      *)
(***************************************************************************)
C13_ReloadIsIdempotent ==
    [][(/\ op.name = "Project.load" /\ op.exc = ""
        /\ op'.name = "Project.load" /\ op'.arg = op.arg)
         => /\ Paths(heap', _scripts') = Paths(heap, _scripts)
            /\ Paths(heap', _modules') = Paths(heap, _modules)
            /\ Paths(heap', _packages') = Paths(heap, _packages)
      ]_vars

(***************************************************************************)
(* C14: after Project.load returns, no two top-level Modules of the        *)
(* Project have the same path and no two Scripts have the same path, also  *)
(* when the patterns of the record overlap or repeat.                      *)
(***************************************************************************)
C14_UniquePaths ==
    (op.name = "Project.load" /\ op.exc = "")
        => /\ NoDup(Paths(heap, _modules))
           /\ NoDup(Paths(heap, _scripts))

\* the names of the entries of directory dir that are of the given kind
\* ("file" or "dir", a symbolic link is neither), match none of the excludes
\* and, for a file, one of the includes
Scanned(f, dir, kind, includes, excludes) ==
    {e.n : e \in {x \in Range(FsOrder) :
                    /\ x.d = dir /\ EntryPath(x) \in f /\ x.k = kind
                    /\ \A i \in 1..Len(excludes) : ~fnmatch(x.n, excludes[i])
                    /\ kind = "file" =>
                          \E i \in 1..Len(includes) : fnmatch(x.n, includes[i])}}

\* the units a step appends to a list of the Project
Added(prev, next) == SubSeq(next, Len(prev) + 1, Len(next))

\* a list of n units whose paths are exactly the n paths of the set
OnePerPath(h, l, paths) ==
    Len(l) = Cardinality(paths) /\ Range(Paths(h, l)) = paths

(***************************************************************************)
(* C15: a Project.load whose record has no packages entries and whose      *)
(* scripts and modules patterns resolve to nothing takes the default       *)
(* branch: (i) when src holds __init__.py the call adds a single Package,  *)
(* whose path is src and whose name is the name of the record or, without  *)
(* one, the base name of src, and adds no top-level Module; (ii) otherwise *)
(* it scans src once and adds one top-level Module per file of src that    *)
(* matches an include and no exclude, and one top-level Package per        *)
(* sub-directory that matches no exclude.  Every other load scans nothing. *)
(***************************************************************************)
C15_DefaultBranch ==
    [][(op'.name = "Project.load" /\ op'.exc = "")
        => LET data == op'.arg
               s == data["src"]
               excludes == vlist(data, "excludes") \o <<".*", "__pycache__">>
               default == /\ vlist(data, "packages") = <<>>
                          /\ op'.scripts = <<>> /\ op'.modules = <<>>
               haspkg == (s \o "/__init__.py") \in fs
               pkgs == Added(_packages, _packages')
               mods == Added(_modules, _modules')
           IN  /\ (default /\ haspkg)
                    => /\ op'.scans = 0
                       /\ Len(pkgs) = 1 /\ mods = <<>>
                       /\ heap'[pkgs[1]].cls = "Package"
                       /\ heap'[pkgs[1]]._path = s
                       /\ name(heap', pkgs[1]) =
                             IF "name" \in DOMAIN data THEN data["name"]
                             ELSE basename(s)
               /\ (default /\ ~haspkg)
                    => /\ op'.scans = 1
                       /\ OnePerPath(heap', mods,
                             Scanned(fs, s, "file", <<"*.py", "*.pyw">>,
                                     excludes))
                       /\ OnePerPath(heap', pkgs,
                             Scanned(fs, s, "dir", <<>>, excludes))
                       /\ \A i \in 1..Len(mods) : heap'[mods[i]].cls = "Module"
                       /\ \A i \in 1..Len(pkgs) : heap'[pkgs[i]].cls = "Package"
               /\ ~default
                    => /\ op'.scans = 0
                       /\ Len(mods) <= Len(op'.modules)
      ]_vars

\* the default branch has made the single Package of a src that holds
\* __init__.py, under the name of the record
C15_Witness ==
    /\ op.name = "Project.load" /\ op.exc = "" /\ op.scans = 0
    /\ "name" \in DOMAIN op.arg /\ "modules" \notin DOMAIN op.arg
    /\ Len(_packages) = 1 /\ _modules = <<>>
    /\ heap[_packages[1]]._path = op.arg["src"]
    /\ heap[_packages[1]]._name = op.arg["name"]
    /\ heap[_packages[1]]._name # basename(op.arg["src"])

\* the explicit packages entries that name a Package, in order
PackageEntries(data) ==
    SelectSeq(vlist(data, "packages"), LAMBDA e : SubSeq(e, 1, 1) # "@")

(***************************************************************************)
(* C16: a Project.load whose record has packages entries adds one Package  *)
(* for each entry that does not start with '@', in order, and none for an  *)
(* '@section' entry: an entry 'path' gives a Package at path named by the  *)
(* base name of path, an entry 'path@name' a Package at path named name,   *)
(* a relative path being joined to src; the call makes no default scan,    *)
(* also when every entry is an '@section' entry.                           *)
(***************************************************************************)
C16_PackagesEntries ==
    [][(/\ op'.name = "Project.load" /\ op'.exc = ""
        /\ vlist(op'.arg, "packages") # <<>>)
        => LET data == op'.arg
               s == data["src"]
               entries == PackageEntries(data)
               pkgs == Added(_packages, _packages')
               at(e) == find(e, "@")
               path(e) == IF at(e) = -1 THEN e ELSE SubSeq(e, 1, at(e))
               alias(e) == IF at(e) = -1 THEN basename(e)
                           ELSE From(e, at(e) + 2)
               resolved(e) == IF SubSeq(path(e), 1, 1) = "/" THEN path(e)
                              ELSE s \o "/" \o path(e)
           IN  /\ op'.scans = 0
               /\ Len(pkgs) = Len(entries)
               /\ \A i \in 1..Len(pkgs) :
                     /\ heap'[pkgs[i]].cls = "Package"
                     /\ heap'[pkgs[i]]._path = resolved(entries[i])
                     /\ name(heap', pkgs[i]) = alias(entries[i])
               /\ Len(Added(_modules, _modules')) <= Len(op'.modules)
      ]_vars

\* a load with an '@section' entry, a relative 'path' entry and a relative
\* 'path@name' entry has made the two Packages
C16_Witness ==
    /\ op.name = "Project.load" /\ op.exc = ""
    /\ Len(vlist(op.arg, "packages")) = 3 /\ Len(PackageEntries(op.arg)) = 2
    /\ Len(_packages) = 2
    /\ heap[_packages[2]]._path = "/s/p" /\ heap[_packages[2]]._name = "core"

(***************************************************************************)
(* C17: each of rft_options, rft_filters and rft_rulers reads the config   *)
(* store at most once per Project, on the first access; every later access *)
(* returns the same mapping object, with the same items, whatever was      *)
(* added to, removed from or changed in the store in between; a section    *)
(* absent at the first access gives an empty mapping, which stays empty.   *)
(***************************************************************************)
C17_RftReadOnce ==
    [][/\ \A prop \in DOMAIN RftSection :
            LET attr == "_" \o prop
            IN  /\ rft[attr].some => rft'[attr] = rft[attr]
                /\ op'.name = "Project." \o prop
                     => /\ op'.ret = rft'[attr].v
                        /\ op'.reads = IF rft[attr].some THEN 0 ELSE 1
                        /\ rft[attr].some => op'.ret = rft[attr].v
                        /\ (~rft[attr].some /\ ~cfg[RftSection[prop]].some)
                             => op'.ret.items = {}
                        /\ (~rft[attr].some /\ cfg[RftSection[prop]].some)
                             => op'.ret.items = cfg[RftSection[prop]].v
       /\ op'.name = "StoreChange" => rft' = rft
      ]_vars

\* rft_filters was first read when the store had no section rft_filter and
\* is read again now that the section has items: the empty mapping returns
C17_Witness ==
    /\ op.name = "Project.rft_filters" /\ op.reads = 0
    /\ op.ret.items = {}
    /\ cfg["rft_filter"].some /\ cfg["rft_filter"].v # {}

(***************************************************************************)
(* C18: scan_path(path, includes, excludes) returns (files, dirs) where    *)
(* dirs holds exactly the immediate sub-directories of path that are not   *)
(* symbolic links and match no exclude pattern, whatever the includes, and *)
(* files holds exactly the immediate regular files that are not symbolic   *)
(* links, match no exclude pattern and match an include pattern ('*.py'    *)
(* and '*.pyw' when no includes are given); each entry is listed once, no  *)
(* entry is in both lists and no listed name matches an exclude pattern.   *)
(***************************************************************************)
C18_ScanPath ==
    (op.name = "scan_path" /\ op.exc = "")
        => LET path == op.arg.path
               excludes == op.arg.excludes
               includes == IF op.arg.includes = <<>> THEN <<"*.py", "*.pyw">>
                           ELSE op.arg.includes
           IN  /\ Range(op.dirs) = Scanned(fs, path, "dir", <<>>, excludes)
               /\ Range(op.files) =
                     Scanned(fs, path, "file", includes, excludes)
               /\ NoDup(op.dirs) /\ NoDup(op.files)
               /\ Range(op.dirs) \cap Range(op.files) = {}
               /\ \A n \in Range(op.dirs) \cup Range(op.files) :
                     \A i \in 1..Len(excludes) : ~fnmatch(n, excludes[i])

\* scan_path has listed /s without includes or excludes: the hidden file
\* and the sub-directory are listed, the symbolic link l.py is not
C18_Witness ==
    /\ op.name = "scan_path" /\ op.exc = ""
    /\ op.arg.path = "/s" /\ op.arg.includes = <<>> /\ op.arg.excludes = <<>>
    /\ ".h.py" \in Range(op.files) /\ "l.py" \notin Range(op.files)
    /\ "p" \in Range(op.dirs)

\* the Modules a qualname index holds
Indexed(idx) == {idx[k] : k \in DOMAIN idx}

\* the unit u was constructed after the index was built: n is the number of
\* objects there were when the building call returned, and an object enters
\* the tree when it is constructed
EnteredAfter(n, u) == u > n

(***************************************************************************)
(* C19 as claimed: get_module builds the index on the first call, so every *)
(* call leaves an index behind, and never rebuilds it; a lookup of the     *)
(* qualname of a Module that is in the tree but not in the index, because  *)
(* it entered the tree after the first lookup, returns None.               *)
(***************************************************************************)
C19_IndexOnFirstCall ==
    [][/\ _rmodules.some => _rmodules' = _rmodules
       /\ op'.name = "Project.get_module"
            => /\ _rmodules'.some
               /\ op'.exc = ""
               /\ \A u \in TreeModules(heap', _modules', _packages') :
                     (_rmodules.some /\ EnteredAfter(nindexed, u)
                      /\ qualname(heap', u) = op'.arg) => op'.ret = None
      ]_vars

(***************************************************************************)
(* C19 as amended: get_module builds the index at most once, in the first  *)
(* call that returns: a call that finds no index walks the tree and either *)
(* raises OSError and leaves no index, or leaves the index it built; a     *)
(* call that finds an index walks nothing, loads nothing, never raises and *)
(* leaves the index as it is, whatever was loaded since.  A Module that is *)
(* in the tree but not in the index is returned by no call: the lookup of  *)
(* its qualname gives the entry the index has for that qualname, if any,   *)
(* and None otherwise.                                                     *)
(***************************************************************************)
C19_IndexBuiltOnce ==
    [][/\ _rmodules.some => _rmodules' = _rmodules
       /\ op'.name = "Project.get_module"
            => /\ _rmodules.some
                    => /\ op'.exc = "" /\ op'.scans = 0 /\ heap' = heap
               /\ op'.exc = "" <=> _rmodules'.some
               /\ op'.exc # "" => (op'.exc = "OSError" /\ ~_rmodules.some)
               /\ op'.exc = ""
                    => /\ op'.ret.some => op'.ret.v \in Indexed(_rmodules'.v)
                       /\ op'.arg \notin DOMAIN _rmodules'.v => op'.ret = None
                       /\ \A u \in TreeModules(heap', _modules', _packages') :
                             u \notin Indexed(_rmodules'.v) => op'.ret # Some(u)
      ]_vars

\* a Module entered the tree by a Project.load after the index was built, and
\* get_module has just reported its qualname as not found
C19_Witness ==
    /\ op.name = "Project.get_module" /\ op.exc = "" /\ op.ret = None
    /\ nloads = 2
    /\ \E u \in TreeModules(heap, _modules, _packages) :
          /\ qualname(heap, u) = op.arg
          /\ EnteredAfter(nindexed, u)

\* the Modules of the loaded Package p and of its sub-packages, in
\* depth-first pre-order
RECURSIVE PreOrder(_, _)
PreOrder(h, p) ==
    h[p]._modules.v
        \o Flatten([i \in 1..Len(h[p]._packages.v) |->
                       PreOrder(h, h[p]._packages.v[i])])

\* the units Package p owns, directly or through its sub-packages
RECURSIVE Owned(_, _)
Owned(h, p) ==
    Children(h, p)
        \cup UNION {Owned(h, k) : k \in {c \in Children(h, p) :
                                            h[c].cls = "Package"}}

\* the Packages an iteration of Package p goes through
Walked(h, p) == {p} \cup {k \in Owned(h, p) : h[k].cls = "Package"}

\* the iteration from the Packages ps took the step from heap h to heap g:
\* each Package walked that was not loaded was loaded, by one scan each, a
\* loaded Package was left as it was, and no other object changed
LoadedOnce(h, g, ps, scans) ==
    LET walked == UNION {Walked(g, p) : p \in ps}
        fresh == {k \in walked : k > Len(h) \/ ~h[k]._modules.some}
    IN  /\ \A k \in walked : g[k]._modules.some /\ g[k]._packages.some
        /\ scans = Cardinality(fresh)
        /\ \A k \in 1..Len(h) : k \notin fresh => g[k] = h[k]

(***************************************************************************)
(* C20: an iteration of Package.iter_module() ends: the caller that goes   *)
(* on calling next() reaches StopIteration or the OSError of a failed      *)
(* scan.  Every object it yields is a Module.  When it ends by             *)
(* StopIteration and no other call on the tree was made meanwhile, it has  *)
(* yielded every Module the Package owns directly or through its           *)
(* sub-packages, each exactly once, in depth-first pre-order (the own      *)
(* modules, then the modules of each sub-package in list order), and has   *)
(* loaded each Package of the subtree that was not loaded exactly once and *)
(* no other.  Project.iter_module() yields the top-level Modules, then the *)
(* modules of each top-level Package in the same way, and never a Script.  *)
(***************************************************************************)
C20_IterModule ==
    /\ it.on ~> ~it.on
    /\ [][(op'.name = "next" /\ op'.kind = "iter_module")
            => /\ op'.exc \in {"", "StopIteration", "OSError"}
               /\ \A i \in 1..Len(op'.ret) :
                     /\ heap'[op'.ret[i]].cls = "Module"
                     /\ op'.ret[i] \notin Range(_scripts)
               /\ (op'.exc = "StopIteration" /\ it.alone /\ it.root # 0)
                    => LET p == it.root
                       IN  /\ op'.ret = PreOrder(heap', p)
                           /\ NoDup(op'.ret)
                           /\ Range(op'.ret) =
                                 {u \in Owned(heap', p) :
                                     heap'[u].cls = "Module"}
                           /\ LoadedOnce(it.heap0, heap', {p}, op'.scans)
               /\ (op'.exc = "StopIteration" /\ it.alone /\ it.root = 0)
                    => /\ op'.ret =
                             _modules
                                 \o Flatten([i \in 1..Len(_packages) |->
                                               PreOrder(heap', _packages[i])])
                       /\ NoDup(op'.ret)
                       /\ Range(op'.ret) =
                             TreeModules(heap', _modules, _packages)
                       /\ LoadedOnce(it.heap0, heap', Range(_packages),
                                     op'.scans)
      ]_vars

\* an iteration of a loaded Package with modules of its own has ended, with
\* no other call on the tree meanwhile: it loaded the one sub-package and
\* yielded that sub-package's module last
C20_Witness ==
    /\ op.name = "next" /\ op.kind = "iter_module"
    /\ op.exc = "StopIteration" /\ op.alone
    /\ op.arg # 0 /\ op.scans = 1
    /\ Len(op.ret) >= 3
    /\ heap[op.ret[1]].parent = op.arg
    /\ heap[op.ret[Len(op.ret)]].parent # op.arg
    /\ heap[heap[op.ret[Len(op.ret)]].parent].parent = op.arg

(***************************************************************************)
(* C21: in every state reached by parse_file and compile_file calls on one *)
(* Module, forced or not, returning or raising, a cached code object comes *)
(* with a cached tree and is the compilation of the tree cached now: the   *)
(* code object is never stale with respect to the tree.                    *)
(***************************************************************************)
C21_CodeMatchesTree ==
    mod._co.some => (mod._tree.some /\ mod._co.v.tree = mod._tree.v.id)

=============================================================================
